---- MODULE Spec2Model ----
(***************************************************************************)
(* AI travel planner: the FastAPI backend (src/backend/main.py) and the    *)
(* Streamlit result renderer (src/frontend/app.py).                        *)
(*                                                                         *)
(* A Python str is modelled as Str(parts): parts is the sequence of the    *)
(* pieces an f-string concatenates, so that formatting is concatenation    *)
(* (\o) and "contains" is a search for a subsequence.  None is a value of  *)
(* its own type.                                                           *)
(*                                                                         *)
(* plan_trip is a coroutine on a single-threaded event loop: the code      *)
(* between two awaits runs without interleaving, so one action runs a      *)
(* handler from one suspension point (a backend call awaited) to the next. *)
(* Logging writes lines the program never reads back; it is left out.      *)
(***************************************************************************)
EXTENDS Integers, Sequences, FiniteSets, TLC

VARIABLES
    api_configured,   \* main.py: the module-level flag, set once at startup
    backend,          \* the generation backend's behaviour: task -> kind of answer
    pc,               \* per request handler: where plan_trip is suspended
    frame,            \* per request handler: plan_trip's locals
    inflight,         \* backend calls issued and not yet answered
    calls,            \* per request handler: the backend calls of its request, in order
    response,         \* per request handler: the HTTP response of its request
    served,           \* history: request -> the first 200 body answered for it
    response_data,    \* app.py: display_results' argument
    screen,           \* app.py: the Streamlit elements emitted, in order
    rpc,              \* app.py: display_results' position
    session_state,    \* app.py: st.session_state, key -> value
    API_URL,          \* app.py: the environment variable API_URL, None when unset
    last_run          \* history: what the last run of the app.py script did

vars == <<api_configured, backend, pc, frame, inflight, calls, response, served,
          response_data, screen, rpc, session_state, API_URL, last_run>>

backendVars == <<api_configured, backend, pc, frame, inflight, calls, response, served>>
renderVars == <<response_data, screen, rpc>>
sessionVars == <<session_state, API_URL, last_run>>

----------------------------------------------------------------------------
(* Python values *)

None == [type |-> "NoneType"]

Str(parts) == [type |-> "str", parts |-> parts]

IsStr(v) == v.type = "str"

\* str(n) for an int n, as the f-string "{n}" formats it: decimal digits, "-" first
\* for a negative number.
DigitChar == <<"0", "1", "2", "3", "4", "5", "6", "7", "8", "9">>

RECURSIVE NatDigits(_)
NatDigits(n) ==
    IF n < 10 THEN <<DigitChar[n + 1]>>
    ELSE NatDigits(n \div 10) \o <<DigitChar[(n % 10) + 1]>>

IntToStr(n) == IF n < 0 THEN <<"-">> \o NatDigits(-n) ELSE NatDigits(n)

\* "%02d" / "%04d": decimal digits, zero-padded on the left to the width.
RECURSIVE ZeroPad(_, _)
ZeroPad(digits, width) ==
    IF Len(digits) >= width THEN digits ELSE ZeroPad(<<"0">> \o digits, width)

----------------------------------------------------------------------------
(* datetime.date: a record [year, month, day] of the proleptic Gregorian   *)
(* calendar; subtraction goes through the ordinal, as CPython's does.      *)

IsLeap(y) == (y % 4 = 0) /\ ((y % 100 # 0) \/ (y % 400 = 0))

DaysInMonth(y, m) ==
    IF m = 2 THEN (IF IsLeap(y) THEN 29 ELSE 28)
    ELSE IF m \in {4, 6, 9, 11} THEN 30 ELSE 31

DaysBeforeYear(y) ==
    ((y - 1) * 365) + ((y - 1) \div 4) - ((y - 1) \div 100) + ((y - 1) \div 400)

RECURSIVE DaysBeforeMonth(_, _)
DaysBeforeMonth(y, m) ==
    IF m = 1 THEN 0 ELSE DaysBeforeMonth(y, m - 1) + DaysInMonth(y, m - 1)

toordinal(d) == DaysBeforeYear(d.year) + DaysBeforeMonth(d.year, d.month) + d.day

\* (end_date - start_date).days
DateDiffDays(end_date, start_date) == toordinal(end_date) - toordinal(start_date)

\* date.strftime('%Y-%m-%d'): the C library's %Y writes the year without
\* padding (date(999, 12, 31) gives 999-12-31), %m and %d write two digits.
strftime(d) ==
    NatDigits(d.year) \o <<"-">> \o ZeroPad(NatDigits(d.month), 2)
        \o <<"-">> \o ZeroPad(NatDigits(d.day), 2)

Date(y, m, d) == [year |-> y, month |-> m, day |-> d]

----------------------------------------------------------------------------
(* get_budget_description *)

get_budget_description_no_default(budget_level) ==
    CASE budget_level = 1 -> "Budget-Friendly"
      [] budget_level = 2 -> "Mid-Range"
      [] budget_level >= 3 -> "Luxury"
      [] OTHER -> "Any Budget"

get_budget_description(budget_level) ==
    IF budget_level = 1 THEN "Budget-Friendly"
    ELSE IF budget_level = 2 THEN "Mid-Range"
    ELSE IF budget_level = 3 THEN "Luxury"
    ELSE "Any Budget"

----------------------------------------------------------------------------
(* TripRequest, and the requests the model draws *)

TripRequest(source, destination, start_date, end_date, budget_level) ==
    [source |-> source, destination |-> destination, start_date |-> start_date,
     end_date |-> end_date, budget_level |-> budget_level]

\* Calendar stepping, used only to draw end dates a known number of days from a
\* start date.
NextDay(d) ==
    IF d.day < DaysInMonth(d.year, d.month) THEN Date(d.year, d.month, d.day + 1)
    ELSE IF d.month < 12 THEN Date(d.year, d.month + 1, 1)
    ELSE Date(d.year + 1, 1, 1)

PrevDay(d) ==
    IF d.day > 1 THEN Date(d.year, d.month, d.day - 1)
    ELSE IF d.month > 1 THEN Date(d.year, d.month - 1, DaysInMonth(d.year, d.month - 1))
    ELSE Date(d.year - 1, 12, 31)

RECURSIVE ShiftDate(_, _)
ShiftDate(d, k) ==
    IF k = 0 THEN d
    ELSE IF k > 0 THEN ShiftDate(NextDay(d), k - 1)
    ELSE ShiftDate(PrevDay(d), k + 1)

\* Bounds of the requests drawn.
MaxSpan == 8
MaxBack == 2
BudgetSpread == 2

\* Start dates: the documented example, the days before a leap day, before a
\* non-leap March, and before a new year.
StartDates ==
    {Date(2025, 6, 1), Date(2024, 2, 27), Date(2025, 2, 27), Date(2024, 12, 30),
     Date(999, 12, 30)}

DayOffsets == (0 - MaxBack) .. MaxSpan

BudgetLevels == (1 - BudgetSpread) .. (3 + BudgetSpread)

\* The requests of the single-handler sweep: every budget level and every
\* date pair drawn, end before start included (the code does not reject it).
SweepRequests ==
    {TripRequest("New York", "Paris", s, ShiftDate(s, k), b) :
        s \in StartDates, k \in DayOffsets, b \in BudgetLevels}

\* The requests of the concurrent handlers: the documented end-to-end example, the
\* same trip on another budget, and another destination out of the budget range.
ExampleRequest == TripRequest("New York", "Paris", Date(2025, 6, 1), Date(2025, 6, 8), 2)

Requests ==
    {ExampleRequest,
     TripRequest("New York", "Paris", Date(2025, 6, 1), Date(2025, 6, 8), 3),
     TripRequest("Delhi", "Rome", Date(2024, 2, 27), Date(2024, 3, 1), 0)}

----------------------------------------------------------------------------
(* The four prompts, the generation calls and the backend *)

Tasks == <<"flights", "itinerary", "recommendations", "weather">>

Kinds == {"content", "empty", "fault"}

flight_prompt(source, destination, start_date, end_date, budget_level_desc) ==
    <<"suggest potential flight options for a trip from ", source, " to ", destination,
      ". The desired departure date is ">> \o strftime(start_date)
    \o <<" and the return date is ">> \o strftime(end_date)
    \o <<". Please provide suggestions that align with a **", budget_level_desc,
         " budget**.">>

\* duration = (end_date - start_date).days + 1
duration_no_plus_one(start_date, end_date) == DateDiffDays(end_date, start_date)

duration(start_date, end_date) == DateDiffDays(end_date, start_date) + 1

itinerary_prompt(destination, start_date, end_date, budget_level_desc) ==
    <<"Create a detailed travel itinerary for a trip to ", destination,
      ". The trip starts on ">> \o strftime(start_date)
    \o <<" and ends on ">> \o strftime(end_date)
    \o <<", lasting for ">> \o IntToStr(duration(start_date, end_date))
    \o <<" days. Please plan the trip with a **", budget_level_desc,
         " budget** in mind. Suggested activities (suitable for a ", budget_level_desc,
         " budget). Suggestions for local food that fit a ", budget_level_desc,
         " budget.">>

recommendations_prompt(location, budget_level_desc) ==
    <<"provide Restaurant & Hotel recommendations for ", location,
      ". Please provide recommendations specifically for a **", budget_level_desc,
      " budget**. Top 5 restaurants that fit a ", budget_level_desc,
      " budget. Top 5 hotels that fit a ", budget_level_desc, " budget.">>

weather_prompt(location) ==
    <<"provide a detailed weather forecast and suggest appropriate clothing to pack for a trip to ",
      location, ". Provide the forecast for the next 7 days. Suggest clothing for their trip to ",
      location, " during this period.">>

\* model.generate_content_async(contents=[prompt], generation_config=...)
GenerationCall(task, prompt, temperature, max_output_tokens) ==
    [task |-> task, model_name |-> "gemini-1.5-flash", prompt |-> prompt,
     temperature |-> temperature, max_output_tokens |-> max_output_tokens]

flight_call(fr) ==
    GenerationCall("flights",
        flight_prompt(fr.request.source, fr.request.destination, fr.request.start_date,
                      fr.request.end_date, fr.budget_level_desc),
        "0.6", 700)

itinerary_call(fr) ==
    GenerationCall("itinerary",
        itinerary_prompt(fr.request.destination, fr.request.start_date,
                         fr.request.end_date, fr.budget_level_desc),
        "0.7", 2048)

\* The recommendations call built from a budget descriptor kept in a module-level
\* variable, which a request handled at the same time has overwritten.
recommendations_call_shared(fr) ==
    LET others == {h \in DOMAIN frame :
                      /\ frame[h].request # None
                      /\ frame[h].request.budget_level # fr.request.budget_level}
        desc == IF others = {} THEN fr.budget_level_desc
                ELSE frame[CHOOSE h \in others : TRUE].budget_level_desc
    IN  GenerationCall("recommendations",
            recommendations_prompt(fr.request.destination, desc), "0.7", 2048)

recommendations_call(fr) ==
    GenerationCall("recommendations",
        recommendations_prompt(fr.request.destination, fr.budget_level_desc),
        "0.7", 2048)

weather_call(fr) ==
    GenerationCall("weather", weather_prompt(fr.request.destination), "0.4", 1500)

\* The backend is a deterministic stub: the kind of its answer is fixed per task
\* (backend[task]); a content answer echoes the prompt, an empty answer carries
\* feedback metadata naming the task, a fault carries a message naming the task.
\* An answer is the response object, or the exception raised by the await.
BackendAnswer(call) ==
    CASE backend[call.task] = "content" ->
            [raised |-> FALSE, parts |-> <<"Echo: ">> \o call.prompt,
             prompt_feedback |-> <<>>]
      [] backend[call.task] = "empty" ->
            [raised |-> FALSE, parts |-> <<>>,
             prompt_feedback |-> <<"block_reason: SAFETY (", call.task, ")">>]
      [] OTHER ->
            [raised |-> TRUE, exc |-> <<"503 backend unavailable (", call.task, ")">>]

\* response.text: the text of the parts; ValueError when there are none.
response_text(answer) ==
    IF answer.parts # <<>> THEN [raised |-> FALSE, value |-> Str(answer.parts)]
    ELSE [raised |-> TRUE, exc |-> <<"response.text requires a valid Part">>]

\* What a generation function's try block does with the awaited answer, and its
\* except clause: the value returned, or the exception that leaves the function.
Returned(v) == [raised |-> FALSE, value |-> v]

Raised(exc) == [raised |-> TRUE, exc |-> exc]

GenerationOutcome(answer, empty_message, error_prefix) ==
    IF answer.raised THEN Returned(Str(<<error_prefix>> \o answer.exc))
    ELSE IF answer.parts # <<>> THEN
        (IF response_text(answer).raised
            THEN Returned(Str(<<error_prefix>> \o response_text(answer).exc))
            ELSE Returned(response_text(answer).value))
    ELSE Returned(Str(<<empty_message>> \o answer.prompt_feedback \o <<")">>))

\* The same without the except clause: a fault leaves the function.
GenerationOutcomeUncaught(answer, empty_message, error_prefix) ==
    IF answer.raised THEN Raised(answer.exc)
    ELSE GenerationOutcome(answer, empty_message, error_prefix)

\* The same without the test of response.parts: response.text is read at once.
GenerationOutcomeNoPartsCheck(answer, empty_message, error_prefix) ==
    IF answer.raised THEN Returned(Str(<<error_prefix>> \o answer.exc))
    ELSE IF response_text(answer).raised
        THEN Returned(Str(<<error_prefix>> \o response_text(answer).exc))
        ELSE Returned(response_text(answer).value)

generate_flight_suggestions_result(answer) ==
    GenerationOutcome(answer,
        "Could not generate flight suggestions. The response was empty or blocked. (Feedback: ",
        "An error occurred during flight suggestion generation: ")

generate_travel_itinerary_uncaught(answer) ==
    GenerationOutcomeUncaught(answer,
        "Could not generate itinerary. The response was empty or blocked. (Feedback: ",
        "An error occurred during itinerary generation: ")

generate_travel_itinerary_result(answer) ==
    GenerationOutcome(answer,
        "Could not generate itinerary. The response was empty or blocked. (Feedback: ",
        "An error occurred during itinerary generation: ")

generate_recommendations_uncaught(answer) ==
    GenerationOutcomeUncaught(answer,
        "Could not generate recommendations. The response was empty or blocked. (Feedback: ",
        "An error occurred during recommendation generation: ")

generate_recommendations_result(answer) ==
    GenerationOutcome(answer,
        "Could not generate recommendations. The response was empty or blocked. (Feedback: ",
        "An error occurred during recommendation generation: ")

get_weather_forecast_no_parts_check(answer) ==
    GenerationOutcomeNoPartsCheck(answer,
        "Could not get weather forecast and clothing suggestions. The response was empty or blocked. (Feedback: ",
        "An error occurred during weather forecasting and clothing suggestions: ")

get_weather_forecast_result(answer) ==
    GenerationOutcome(answer,
        "Could not get weather forecast and clothing suggestions. The response was empty or blocked. (Feedback: ",
        "An error occurred during weather forecasting and clothing suggestions: ")

\* The value a generation function returns at once when the flag is false.
not_configured_message(task) ==
    CASE task = "flights" -> Str(<<"API not configured. Cannot generate flight suggestions.">>)
      [] task = "itinerary" -> Str(<<"API not configured. Cannot generate itinerary.">>)
      [] task = "recommendations" -> Str(<<"API not configured. Cannot generate recommendations.">>)
      [] OTHER -> Str(<<"API not configured. Cannot get weather forecast or clothing suggestions.">>)

----------------------------------------------------------------------------
(* plan_trip *)

Handlers == {"h1", "h2"}

\* plan_trip's locals; a local not yet assigned is None.
NewFrame(request) ==
    [request |-> request, budget_level_desc |-> None, flight_suggestions |-> None,
     itinerary |-> None, recommendations |-> None, weather_forecast |-> None]

IdleFrame == NewFrame(None)

AwaitPc == <<"await_flights", "await_itinerary", "await_recommendations", "await_weather">>

CallOf(k, fr) ==
    CASE k = 1 -> flight_call(fr)
      [] k = 2 -> itinerary_call(fr)
      [] k = 3 -> recommendations_call(fr)
      [] OTHER -> weather_call(fr)

\* The frame after the generation functions from the k-th on have each returned
\* their not-configured message (the flag is false at every one of them).
NotConfiguredFrom(k, fr) ==
    [fr EXCEPT
        !.flight_suggestions = IF k <= 1 THEN not_configured_message("flights") ELSE @,
        !.itinerary = IF k <= 2 THEN not_configured_message("itinerary") ELSE @,
        !.recommendations = IF k <= 3 THEN not_configured_message("recommendations") ELSE @,
        !.weather_forecast = IF k <= 4 THEN not_configured_message("weather") ELSE @]

\* The record plan_trip returns.
TripPlanResponse(fr) ==
    [flight_suggestions |-> fr.flight_suggestions, itinerary |-> fr.itinerary,
     recommendations |-> fr.recommendations, weather_forecast |-> fr.weather_forecast]

RecordServed(request, body) ==
    IF \E e \in served : e.request = request THEN served
    ELSE served \cup {[request |-> request, body |-> body]}

\* plan_trip returns: status 200 with the record.
Return200(h, fr, infl) ==
    /\ pc' = [pc EXCEPT ![h] = "done"]
    /\ frame' = [frame EXCEPT ![h] = fr]
    /\ response' = [response EXCEPT ![h] = [status_code |-> 200, body |-> TripPlanResponse(fr)]]
    /\ served' = RecordServed(fr.request, TripPlanResponse(fr))
    /\ inflight' = infl
    /\ UNCHANGED calls

\* An exception leaves plan_trip: the framework answers 500.
Return500(h, fr, infl) ==
    /\ pc' = [pc EXCEPT ![h] = "done"]
    /\ frame' = [frame EXCEPT ![h] = fr]
    /\ response' = [response EXCEPT ![h] = [status_code |-> 500, detail |-> "Internal Server Error"]]
    /\ inflight' = infl
    /\ UNCHANGED <<calls, served>>

\* The k-th generation function is entered with the locals fr: it issues its call
\* and the handler suspends on it.
IssueCall(h, k, fr, infl) ==
    /\ pc' = [pc EXCEPT ![h] = AwaitPc[k]]
    /\ frame' = [frame EXCEPT ![h] = fr]
    /\ inflight' = infl \cup {[handler |-> h, call |-> CallOf(k, fr)]}
    /\ calls' = [calls EXCEPT ![h] = Append(@, CallOf(k, fr))]
    /\ UNCHANGED <<response, served>>

\* plan_trip runs on from the entry of its k-th generation function (k = 5: from
\* the return statement) to its next suspension or to its end.
RunFrom(h, k, fr, infl) ==
    IF k <= 4 /\ api_configured THEN IssueCall(h, k, fr, infl)
    ELSE Return200(h, NotConfiguredFrom(k, fr), infl)

\* The answer to the call handler h awaits, and inflight without that call.
Awaited(h) == CHOOSE c \in inflight : c.handler = h /\ c.call.task = Tasks[CHOOSE k \in 1..4 : AwaitPc[k] = pc[h]]

\* POST /plan_trip/ without the configuration check.
plan_trip_unchecked(h, request) ==
    /\ pc[h] = "idle"
    /\ RunFrom(h, 1, [NewFrame(request) EXCEPT
                         !.budget_level_desc = get_budget_description(request.budget_level)],
               inflight)
    /\ UNCHANGED <<api_configured, backend, renderVars, sessionVars>>

\* POST /plan_trip/ issuing the first two calls together.
plan_trip_gather(h, request) ==
    LET fr == [NewFrame(request) EXCEPT
                  !.budget_level_desc = get_budget_description(request.budget_level)]
    IN  /\ pc[h] = "idle"
        /\ api_configured
        /\ pc' = [pc EXCEPT ![h] = AwaitPc[1]]
        /\ frame' = [frame EXCEPT ![h] = fr]
        /\ inflight' = inflight \cup {[handler |-> h, call |-> CallOf(1, fr)],
                                      [handler |-> h, call |-> CallOf(2, fr)]}
        /\ calls' = [calls EXCEPT ![h] = <<CallOf(1, fr), CallOf(2, fr)>>]
        /\ UNCHANGED <<response, served, api_configured, backend, renderVars, sessionVars>>

\* POST /plan_trip/: the request arrives at an idle handler, which runs to its
\* first suspension (the flights call) or answers 503.
plan_trip(h, request) ==
    /\ pc[h] = "idle"
    /\ IF ~api_configured
       THEN /\ pc' = [pc EXCEPT ![h] = "done"]
            /\ frame' = [frame EXCEPT ![h] = NewFrame(request)]
            /\ response' = [response EXCEPT ![h] =
                   [status_code |-> 503,
                    detail |-> "Google Generative AI API is not configured."]]
            /\ UNCHANGED <<inflight, calls, served>>
       ELSE RunFrom(h, 1, [NewFrame(request) EXCEPT
                              !.budget_level_desc = get_budget_description(request.budget_level)],
                    inflight)
    /\ UNCHANGED <<api_configured, backend, renderVars, sessionVars>>

\* The flights call answered by a fault is issued again.
flights_answered_retry(h) ==
    /\ pc[h] = "await_flights"
    /\ LET c == Awaited(h)
           r == generate_flight_suggestions_result(BackendAnswer(c.call))
       IN  IF BackendAnswer(c.call).raised /\ Len(calls[h]) < 2
           THEN IssueCall(h, 1, frame[h], inflight \ {c})
           ELSE RunFrom(h, 2, [frame[h] EXCEPT !.flight_suggestions = r.value], inflight \ {c})
    /\ UNCHANGED <<api_configured, backend, renderVars, sessionVars>>

\* The flights call is answered: generate_flight_suggestions returns, and
\* plan_trip runs on into generate_travel_itinerary.
flights_answered(h) ==
    /\ pc[h] = "await_flights"
    /\ LET c == Awaited(h)
           r == generate_flight_suggestions_result(BackendAnswer(c.call))
       IN  IF r.raised THEN Return500(h, frame[h], inflight \ {c})
           ELSE RunFrom(h, 2, [frame[h] EXCEPT !.flight_suggestions = r.value], inflight \ {c})
    /\ UNCHANGED <<api_configured, backend, renderVars, sessionVars>>

\* The itinerary call is answered; plan_trip runs on into generate_recommendations.
itinerary_answered(h) ==
    /\ pc[h] = "await_itinerary"
    /\ LET c == Awaited(h)
           r == generate_travel_itinerary_result(BackendAnswer(c.call))
       IN  IF r.raised THEN Return500(h, frame[h], inflight \ {c})
           ELSE RunFrom(h, 3, [frame[h] EXCEPT !.itinerary = r.value], inflight \ {c})
    /\ UNCHANGED <<api_configured, backend, renderVars, sessionVars>>

\* The recommendations call is answered; plan_trip runs on into get_weather_forecast.
recommendations_answered(h) ==
    /\ pc[h] = "await_recommendations"
    /\ LET c == Awaited(h)
           r == generate_recommendations_result(BackendAnswer(c.call))
       IN  IF r.raised THEN Return500(h, frame[h], inflight \ {c})
           ELSE RunFrom(h, 4, [frame[h] EXCEPT !.recommendations = r.value], inflight \ {c})
    /\ UNCHANGED <<api_configured, backend, renderVars, sessionVars>>

\* The weather call is answered; plan_trip returns the record.
weather_answered(h) ==
    /\ pc[h] = "await_weather"
    /\ LET c == Awaited(h)
           r == get_weather_forecast_result(BackendAnswer(c.call))
       IN  IF r.raised THEN Return500(h, frame[h], inflight \ {c})
           ELSE RunFrom(h, 5, [frame[h] EXCEPT !.weather_forecast = r.value], inflight \ {c})
    /\ UNCHANGED <<api_configured, backend, renderVars, sessionVars>>

\* The response is sent; the request and its record are discarded and the
\* handler is free for the next request.
response_sent(h) ==
    /\ pc[h] = "done"
    /\ pc' = [pc EXCEPT ![h] = "idle"]
    /\ frame' = [frame EXCEPT ![h] = IdleFrame]
    /\ calls' = [calls EXCEPT ![h] = <<>>]
    /\ response' = [response EXCEPT ![h] = None]
    /\ UNCHANGED <<inflight, served, api_configured, backend, renderVars, sessionVars>>

----------------------------------------------------------------------------
(* Specifications of the backend *)

RenderIdle ==
    /\ response_data = None
    /\ screen = <<>>
    /\ rpc = "off"

\* st.session_state of a new session, before the script has run.
NewSession == [key \in {} |-> None]

NoRun == [kind |-> "none"]

SessionIdle ==
    /\ session_state = NewSession
    /\ last_run = NoRun
    /\ API_URL = None

\* After startup: the flag is what the key and genai.configure made it; no
\* request has arrived.
Init ==
    /\ api_configured \in BOOLEAN
    /\ backend \in [{Tasks[k] : k \in 1..4} -> Kinds]
    /\ pc = [h \in Handlers |-> "idle"]
    /\ frame = [h \in Handlers |-> IdleFrame]
    /\ inflight = {}
    /\ calls = [h \in Handlers |-> <<>>]
    /\ response = [h \in Handlers |-> None]
    /\ served = {}
    /\ RenderIdle
    /\ SessionIdle

Next ==
    \E h \in Handlers :
        \/ \E request \in Requests : plan_trip(h, request)
        \/ flights_answered(h)
        \/ itinerary_answered(h)
        \/ recommendations_answered(h)
        \/ weather_answered(h)
        \/ response_sent(h)

\* Concurrent handlers, each serving one request after another.
Spec == Init /\ [][Next]_vars

SweepNext ==
    \/ \E request \in SweepRequests : plan_trip("h1", request)
    \/ flights_answered("h1")
    \/ itinerary_answered("h1")
    \/ recommendations_answered("h1")
    \/ weather_answered("h1")

\* One handler serving one request, over every budget level and date pair drawn.
SweepSpec == Init /\ [][SweepNext]_vars

----------------------------------------------------------------------------
(* Properties of the backend *)

FieldNames == <<"flight_suggestions", "itinerary", "recommendations", "weather_forecast">>

\* plan_trip's local holding the k-th generation function's result.
FieldOf(fr, k) ==
    CASE k = 1 -> fr.flight_suggestions
      [] k = 2 -> fr.itinerary
      [] k = 3 -> fr.recommendations
      [] OTHER -> fr.weather_forecast

\* sub occurs in s as a run of consecutive pieces.
Contains(s, sub) ==
    \E i \in 0 .. (Len(s) - Len(sub)) : SubSeq(s, i + 1, i + Len(sub)) = sub

\* The fixed texts of the diagnostics, as a user reads them.
EmptyText ==
    <<"Could not generate flight suggestions. The response was empty or blocked. (Feedback: ",
      "Could not generate itinerary. The response was empty or blocked. (Feedback: ",
      "Could not generate recommendations. The response was empty or blocked. (Feedback: ",
      "Could not get weather forecast and clothing suggestions. The response was empty or blocked. (Feedback: ">>

FaultText ==
    <<"An error occurred during flight suggestion generation: ",
      "An error occurred during itinerary generation: ",
      "An error occurred during recommendation generation: ",
      "An error occurred during weather forecasting and clothing suggestions: ">>

\* What the stub backend supplies for a task.
StubFeedback(task) == <<"block_reason: SAFETY (", task, ")">>

StubFaultMessage(task) == <<"503 backend unavailable (", task, ")">>

\* The k-th prompt of a request, from the request alone.
PromptOf(k, request) ==
    CallOf(k, [NewFrame(request) EXCEPT
                   !.budget_level_desc = get_budget_description(request.budget_level)]).prompt

\* The k-th field of a request's response when the k-th call's answer is of the
\* given kind, whatever the other three calls' answers are.
FieldAlone(k, request, kind) ==
    CASE kind = "content" -> Str(<<"Echo: ">> \o PromptOf(k, request))
      [] kind = "empty" -> Str(<<EmptyText[k]>> \o StubFeedback(Tasks[k]) \o <<")">>)
      [] OTHER -> Str(<<FaultText[k]>> \o StubFaultMessage(Tasks[k]))

Answered200(h) == pc[h] = "done" /\ response[h].status_code = 200

\* C1: with the flag true, whatever the kinds of the four answers, a request that
\* has been handled has status 200 and a record of exactly the four keys, each a
\* non-null string; a handler that is suspended has its call in flight, so it can
\* always run on.
C1_FourStringsAlways ==
    api_configured =>
        \A h \in Handlers :
            /\ pc[h] \in {AwaitPc[k] : k \in 1..4} =>
                   \E c \in inflight : c.handler = h
            /\ pc[h] = "done" =>
                   /\ response[h].status_code = 200
                   /\ DOMAIN response[h].body = {FieldNames[k] : k \in 1..4}
                   /\ \A f \in DOMAIN response[h].body :
                          /\ response[h].body[f] # None
                          /\ IsStr(response[h].body[f])

\* C1 witness: a request answered after a fault, an empty answer and content.
C1_Witness ==
    /\ api_configured
    /\ backend["flights"] = "fault"
    /\ backend["itinerary"] = "empty"
    /\ backend["weather"] = "content"
    /\ \E h \in Handlers : Answered200(h) /\ IsStr(response[h].body["flight_suggestions"])

\* C2: with the flag false, every request ends with status 503 and no body, no
\* backend call is ever made, the budget descriptor is never resolved and no
\* generation function leaves a result.
C2_NotConfigured503 ==
    ~api_configured =>
        /\ inflight = {}
        /\ served = {}
        /\ \A h \in Handlers :
               /\ pc[h] \in {"idle", "done"}
               /\ calls[h] = <<>>
               /\ frame[h].budget_level_desc = None
               /\ \A k \in 1..4 : FieldOf(frame[h], k) = None
               /\ pc[h] = "done" =>
                      /\ response[h].status_code = 503
                      /\ "body" \notin DOMAIN response[h]

\* C2 witness: a request handled with the flag false.
C2_Witness ==
    /\ ~api_configured
    /\ \E h \in Handlers : pc[h] = "done" /\ frame[h].request \in Requests

\* C3: when some call of a request faults, the request is still answered 200 after
\* all four calls were made, the faulted field is that task's diagnostic carrying
\* the fault's message, and every field is what its own call's answer alone makes
\* it, the same as had no other call faulted.
C3_FaultsIsolated ==
    \A h \in Handlers :
        (/\ api_configured
         /\ pc[h] = "done"
         /\ \E k \in 1..4 : backend[Tasks[k]] = "fault")
        =>
        /\ response[h].status_code = 200
        /\ Len(calls[h]) = 4
        /\ \A k \in 1..4 :
               /\ response[h].body[FieldNames[k]] =
                      FieldAlone(k, frame[h].request, backend[Tasks[k]])
               /\ backend[Tasks[k]] = "fault" =>
                      /\ Head(response[h].body[FieldNames[k]].parts) = FaultText[k]
                      /\ Contains(response[h].body[FieldNames[k]].parts,
                                  StubFaultMessage(Tasks[k]))

\* C3 witness: a request answered whose recommendations call alone faulted.
C3_Witness ==
    /\ backend = [t \in {Tasks[k] : k \in 1..4} |->
                     IF t = "recommendations" THEN "fault" ELSE "content"]
    /\ \E h \in Handlers :
           /\ Answered200(h)
           /\ response[h].body["weather_forecast"] =
                  Str(<<"Echo: ">> \o weather_prompt(frame[h].request.destination))

\* C4: a request's calls are issued in the order flights, itinerary,
\* recommendations, weather; it never has more than one call in flight, that call
\* is the last one issued, and every earlier call has returned and left its result.
C4_Sequential ==
    \A h \in Handlers :
        LET n == Len(calls[h])
            mine == {c \in inflight : c.handler = h}
        IN  /\ n <= 4
            /\ Cardinality(mine) <= 1
            /\ \A c \in mine : n >= 1 /\ c.call = calls[h][n] /\ pc[h] = AwaitPc[n]
            /\ \A i \in 1..n :
                   /\ calls[h][i].task = Tasks[i]
                   /\ i < n =>
                          /\ FieldOf(frame[h], i) # None
                          /\ \A c \in mine : c.call.task # Tasks[i]

\* C4 witness: one request awaits its recommendations call, after a faulted
\* flights call, while another request awaits its flights call.
C4_Witness ==
    /\ backend["flights"] = "fault"
    /\ \E h, g \in Handlers :
           /\ pc[h] = "await_recommendations"
           /\ pc[g] = "await_flights"
           /\ Cardinality(inflight) = 2

\* C5: for each of the four tasks, once its call is answered: an answer with no
\* content parts leaves that task's fixed empty/blocked text with the backend's
\* feedback in it, and not the model text; an answer with content parts leaves the
\* response text.
C5_EmptyOrText ==
    \A h \in Handlers : \A k \in 1..4 :
        (api_configured /\ FieldOf(frame[h], k) # None) =>
            /\ backend[Tasks[k]] = "empty" =>
                   /\ FieldOf(frame[h], k) =
                          Str(<<EmptyText[k]>> \o StubFeedback(Tasks[k]) \o <<")">>)
                   /\ Contains(FieldOf(frame[h], k).parts, StubFeedback(Tasks[k]))
                   /\ ~Contains(FieldOf(frame[h], k).parts, calls[h][k].prompt)
            /\ backend[Tasks[k]] = "content" =>
                   FieldOf(frame[h], k) = Str(<<"Echo: ">> \o calls[h][k].prompt)

\* C5 witness: a request answered with an empty weather answer and a flights
\* answer with content.
C5_Witness ==
    /\ backend["weather"] = "empty"
    /\ backend["flights"] = "content"
    /\ \E h \in Handlers :
           /\ Answered200(h)
           /\ Contains(response[h].body["weather_forecast"].parts, StubFeedback("weather"))

\* C8: a request answered 200 has the body that the first answer to the same
\* request had, whatever was handled in between or at the same time.
C8_SameRequestSameBody ==
    \A h \in Handlers :
        Answered200(h) =>
            \A e \in served :
                e.request = frame[h].request => e.body = response[h].body

\* C8 witness: the example request answered a second time, after another request
\* was answered too.
C8_Witness ==
    /\ backend["recommendations"] = "content"
    /\ Cardinality(served) >= 2
    /\ \A h \in Handlers : Answered200(h) /\ frame[h].request = ExampleRequest

\* C10: with the flag true a request makes at most four backend calls, never two
\* for the same task, and when it is answered it has made exactly four, one per
\* task, whatever the answers were and whether or not the same request was
\* answered before.
C10_ExactlyFourCalls ==
    api_configured =>
        \A h \in Handlers :
            /\ Len(calls[h]) <= 4
            /\ \A i, j \in 1..Len(calls[h]) : calls[h][i].task = calls[h][j].task => i = j
            /\ pc[h] = "done" =>
                   /\ Len(calls[h]) = 4
                   /\ {calls[h][i].task : i \in 1..4} = {Tasks[k] : k \in 1..4}

\* C10 witness: a request already answered once is answered again, with a faulted
\* and an empty call among its four.
C10_Witness ==
    /\ backend["flights"] = "fault"
    /\ backend["itinerary"] = "empty"
    /\ \E h \in Handlers :
           /\ pc[h] = "done"
           /\ Len(calls[h]) = 4
           /\ \E g \in Handlers \ {h} : pc[g] = "done" /\ frame[g].request = frame[h].request

----------------------------------------------------------------------------
(* Properties of the budget descriptor and of the trip duration *)

\* C6: whatever integer the request's budget_level is, the request is not
\* rejected and plan_trip's descriptor is "Budget-Friendly" for 1, "Mid-Range" for
\* 2, "Luxury" for 3 and "Any Budget" for every other level; the prompts carry it.
C6_BudgetDescription ==
    \A h \in Handlers :
        (api_configured /\ pc[h] # "idle") =>
            LET b == frame[h].request.budget_level
                d == frame[h].budget_level_desc
            IN  /\ b = 1 => d = "Budget-Friendly"
                /\ b = 2 => d = "Mid-Range"
                /\ b = 3 => d = "Luxury"
                /\ b \notin {1, 2, 3} => d = "Any Budget"
                /\ Contains(calls[h][1].prompt, <<d, " budget**.">>)
                /\ pc[h] = "done" => response[h].status_code = 200

\* C6 witness: requests with a level below 1 and with a level above 3 exist, and
\* one with a negative level is answered 200 under "Any Budget".
C6_Witness ==
    /\ \E r \in SweepRequests : r.budget_level > 3
    /\ \E h \in Handlers :
           /\ Answered200(h)
           /\ frame[h].request.budget_level < 0
           /\ frame[h].budget_level_desc = "Any Budget"

\* The pieces of an itinerary prompt between "lasting for" and "days".
DurationInPrompt(prompt) ==
    LET i == CHOOSE i \in 1..Len(prompt) : prompt[i] = ", lasting for "
        j == CHOOSE j \in 1..Len(prompt) :
                 prompt[j] = " days. Please plan the trip with a **"
    IN  SubSeq(prompt, i + 1, j - 1)

\* a is the same day as b or an earlier one.
DateLE(a, b) ==
    \/ a.year < b.year
    \/ a.year = b.year /\ a.month < b.month
    \/ a.year = b.year /\ a.month = b.month /\ a.day <= b.day

\* C7: the duration written into the itinerary prompt of a request whose end date
\* is k days after its start date is k + 1 (8 for 2025-06-01 to 2025-06-08), and
\* for a request with end_date >= start_date it is at least 1.
C7_Duration ==
    \A h \in Handlers :
        Len(calls[h]) >= 2 =>
            LET r == frame[h].request
                text == DurationInPrompt(calls[h][2].prompt)
            IN  /\ \A k \in DayOffsets :
                       r.end_date = ShiftDate(r.start_date, k) => text = IntToStr(k + 1)
                /\ \E k \in DayOffsets : r.end_date = ShiftDate(r.start_date, k)
                /\ (r.start_date = Date(2025, 6, 1) /\ r.end_date = Date(2025, 6, 8)) =>
                       text = <<"8">>
                /\ DateLE(r.start_date, r.end_date) =>
                       (Head(text) # "-" /\ text # <<"0">>)

\* C7 witness: the itinerary call of a trip over a leap day (2024-02-27 to
\* 2024-03-02, 5 days) has been issued, and the example's dates are among those
\* drawn.
C7_Witness ==
    /\ \E r \in SweepRequests :
           r.start_date = Date(2025, 6, 1) /\ r.end_date = Date(2025, 6, 8)
    /\ \E h \in Handlers :
           /\ Len(calls[h]) >= 2
           /\ frame[h].request.start_date = Date(2024, 2, 27)
           /\ frame[h].request.end_date = Date(2024, 3, 2)
           /\ DurationInPrompt(calls[h][2].prompt) = <<"5">>

----------------------------------------------------------------------------
(* display_results (src/frontend/app.py)                                   *)
(*                                                                         *)
(* A text is a Str whose pieces are tokens: the fence of three backquotes,  *)
(* the tag "json", the newline, a line of prose, or a whole JSON document. *)
(* No token but the fence holds a backquote and none but the newline holds *)
(* a newline, so the regular expression is matched on tokens.  A TLA+      *)
(* string cannot hold a backquote: FENCE names the three backquotes.       *)

FENCE == "<three backquotes>"
JSONTAG == "json"
NL == "\n"
PROSE == "Here is what I found:"

DocRestaurants == "{\"restaurants\": [{\"name\": \"Chez Paul\", \"cuisine\": \"French\"}]}"
DocHotels == "{\"hotels\": [{\"name\": \"Ritz\", \"stars\": 5}]}"
DocBoth == "{\"restaurants\": [{\"name\": \"Chez Paul\", \"cuisine\": \"French\"}], \"hotels\": [{\"name\": \"Ritz\", \"stars\": 5}]}"
DocForecast == "{\"forecast\": [{\"day\": \"Mon\", \"high\": 21}, {\"day\": \"Tue\", \"high\": 19}]}"
DocScalarRestaurants == "{\"restaurants\": 5, \"hotels\": [{\"name\": \"Ritz\", \"stars\": 5}]}"
DocList == "[1, 2]"
DocInvalid == "{oops"

Docs == {DocRestaurants, DocHotels, DocBoth, DocForecast, DocScalarRestaurants, DocList,
         DocInvalid}

\* JSON values: a list of records (its columns and length), an int, a list of
\* ints, a dict (its items).
JsonRecords(columns, n) == [type |-> "list", columns |-> columns, n |-> n]

JsonInt(n) == [type |-> "int", n |-> n]

JsonDict(items) == [type |-> "dict", items |-> items]

RestaurantRows == JsonRecords(<<"name", "cuisine">>, 1)

HotelRows == JsonRecords(<<"name", "stars">>, 1)

ForecastRows == JsonRecords(<<"day", "high">>, 2)

\* json.loads of a text: whitespace around the one document is skipped; anything
\* else (no document, text that is no JSON, data after the document) raises.
json_loads(json_str) ==
    LET body == SelectSeq(json_str, LAMBDA t : t # NL)
    IN  IF Len(body) # 1 THEN Raised(<<"JSONDecodeError">>)
        ELSE CASE body[1] = DocRestaurants ->
                      Returned(JsonDict("restaurants" :> RestaurantRows))
               [] body[1] = DocHotels -> Returned(JsonDict("hotels" :> HotelRows))
               [] body[1] = DocBoth ->
                      Returned(JsonDict("restaurants" :> RestaurantRows @@ "hotels" :> HotelRows))
               [] body[1] = DocForecast -> Returned(JsonDict("forecast" :> ForecastRows))
               [] body[1] = DocScalarRestaurants ->
                      Returned(JsonDict("restaurants" :> JsonInt(5) @@ "hotels" :> HotelRows))
               [] body[1] = DocList -> Returned(JsonRecords(<<0>>, 2))
               [] OTHER -> Raised(<<"JSONDecodeError">>)

\* pd.DataFrame(value): a frame for a list, ValueError for a scalar.
DataFrame(value) ==
    IF value.type = "list" THEN Returned([columns |-> value.columns, rows |-> value.n])
    ELSE Raised(<<"ValueError: DataFrame constructor not properly called!">>)

\* re.findall of FENCE json NL (.*?) NL FENCE with re.DOTALL: the groups of the
\* leftmost non-overlapping matches, each group ending at the first newline
\* followed by a fence.
RECURSIVE FindAllFrom(_, _)
FindAllFrom(p, i) ==
    IF i + 2 > Len(p) THEN <<>>
    ELSE IF p[i] = FENCE /\ p[i + 1] = JSONTAG /\ p[i + 2] = NL
    THEN LET closes == {j \in (i + 3) .. (Len(p) - 1) : p[j] = NL /\ p[j + 1] = FENCE}
         IN  IF closes = {} THEN FindAllFrom(p, i + 1)
             ELSE LET j == CHOOSE j \in closes : \A c \in closes : j <= c
                  IN  <<SubSeq(p, i + 3, j - 1)>> \o FindAllFrom(p, j + 2)
    ELSE FindAllFrom(p, i + 1)

findall(text) == FindAllFrom(text.parts, 1)

\* The Streamlit elements.
Html(s) == [kind |-> "html", body |-> <<s>>]

Markdown(parts) == [kind |-> "markdown", body |-> parts]

Subheader(s) == [kind |-> "subheader", body |-> <<s>>]

Dataframe(df) == [kind |-> "dataframe", data |-> df]

\* One table: st.subheader, then pd.DataFrame, then st.dataframe; the elements
\* emitted and whether an exception left the statements.
TableElements(title, value) ==
    IF DataFrame(value).raised
    THEN [raised |-> TRUE, elements |-> <<Subheader(title)>>]
    ELSE [raised |-> FALSE,
          elements |-> <<Subheader(title), Dataframe(DataFrame(value).value)>>]

\* The recommendations loop body with the hotels test as an elif.
recommendations_block_elif(json_str) ==
    LET parsed == json_loads(json_str)
    IN  IF parsed.raised THEN <<>>
        ELSE IF parsed.value.type = "dict" /\ "restaurants" \in DOMAIN parsed.value.items
        THEN TableElements("Top Restaurants", parsed.value.items["restaurants"]).elements
        ELSE IF parsed.value.type = "dict" /\ "hotels" \in DOMAIN parsed.value.items
        THEN TableElements("Top Hotels", parsed.value.items["hotels"]).elements
        ELSE <<>>

\* The body of the recommendations loop for one matched group: what it emits
\* before it ends or an exception sends it to its bare except.
recommendations_block(json_str) ==
    LET parsed == json_loads(json_str)
        data == parsed.value
        restaurants == TableElements("Top Restaurants", data.items["restaurants"])
        hotels ==
            IF data.type = "dict" /\ "hotels" \in DOMAIN data.items
            THEN TableElements("Top Hotels", data.items["hotels"]).elements
            ELSE <<>>
    IN  IF parsed.raised THEN <<>>
        ELSE IF data.type = "dict" /\ "restaurants" \in DOMAIN data.items
        THEN (IF restaurants.raised THEN restaurants.elements
              ELSE restaurants.elements \o hotels)
        ELSE hotels

\* The body of the weather loop for one matched group.
weather_block(json_str) ==
    LET parsed == json_loads(json_str)
        data == parsed.value
    IN  IF parsed.raised THEN <<>>
        ELSE IF data.type = "dict" /\ "forecast" \in DOMAIN data.items
        THEN TableElements("7-Day Forecast", data.items["forecast"]).elements
        ELSE <<>>

\* Whether the statements of the recommendations loop body raise for one matched
\* group: json.loads, or pd.DataFrame for a table that is reached.
recommendations_block_raises(json_str) ==
    LET parsed == json_loads(json_str)
        data == parsed.value
    IN  \/ parsed.raised
        \/ /\ data.type = "dict"
           /\ \/ /\ "restaurants" \in DOMAIN data.items
                 /\ DataFrame(data.items["restaurants"]).raised
              \/ /\ "hotels" \in DOMAIN data.items
                 /\ DataFrame(data.items["hotels"]).raised

\* The recommendations loop without the try inside it: the first group that
\* raises ends the loop, in the except of the try around it.
RECURSIVE recommendations_loop_no_inner_try(_)
recommendations_loop_no_inner_try(json_matches) ==
    IF json_matches = <<>> THEN <<>>
    ELSE IF recommendations_block_raises(Head(json_matches))
    THEN recommendations_block(Head(json_matches))
    ELSE recommendations_block(Head(json_matches))
             \o recommendations_loop_no_inner_try(Tail(json_matches))

RECURSIVE recommendations_loop(_)
recommendations_loop(json_matches) ==
    IF json_matches = <<>> THEN <<>>
    ELSE recommendations_block(Head(json_matches)) \o recommendations_loop(Tail(json_matches))

RECURSIVE weather_loop(_)
weather_loop(json_matches) ==
    IF json_matches = <<>> THEN <<>>
    ELSE weather_block(Head(json_matches)) \o weather_loop(Tail(json_matches))

SectionOpen(heading) ==
    <<Html("<div class='section-divider'></div>"), Html("<div class='plan-section'>"),
      Markdown(<<heading>>)>>

SectionClose == <<Html("</div>")>>

display_flights ==
    /\ rpc = "flights"
    /\ screen' = screen \o SectionOpen("## Flight Suggestions")
                    \o <<Markdown(response_data["flight_suggestions"].parts)>> \o SectionClose
    /\ rpc' = "itinerary"
    /\ UNCHANGED <<response_data, backendVars, sessionVars>>

display_itinerary ==
    /\ rpc = "itinerary"
    /\ screen' = screen \o SectionOpen("## Trip Itinerary")
                    \o <<Markdown(response_data["itinerary"].parts)>> \o SectionClose
    /\ rpc' = "recommendations"
    /\ UNCHANGED <<response_data, backendVars, sessionVars>>

display_recommendations ==
    /\ rpc = "recommendations"
    /\ screen' = screen \o SectionOpen("## Recommendations")
                    \o <<Markdown(response_data["recommendations"].parts)>>
                    \o recommendations_loop(findall(response_data["recommendations"]))
                    \o SectionClose
    /\ rpc' = "weather"
    /\ UNCHANGED <<response_data, backendVars, sessionVars>>

display_weather ==
    /\ rpc = "weather"
    /\ screen' = screen \o SectionOpen("## Weather Forecast")
                    \o <<Markdown(response_data["weather_forecast"].parts)>>
                    \o weather_loop(findall(response_data["weather_forecast"]))
                    \o SectionClose
    /\ rpc' = "done"
    /\ UNCHANGED <<response_data, backendVars, sessionVars>>

\* The texts drawn: up to MaxSegments segments over the two scanned texts, each
\* a line of prose, a fenced json block around one of the documents, or a fence
\* opened and never closed.
MaxSegments == 3

Block(doc) == <<FENCE, JSONTAG, NL, doc, NL, FENCE>>

Segments == {<<PROSE, NL>>, <<FENCE, JSONTAG, NL>>} \cup {Block(d) : d \in Docs}

RECURSIVE TextsOf(_)
TextsOf(n) ==
    IF n = 0 THEN {<<>>}
    ELSE {t \o g : t \in TextsOf(n - 1), g \in Segments}

ResponseRecords ==
    {[flight_suggestions |-> Str(<<"Fly direct.">>),
      itinerary |-> Str(<<"Day 1: Louvre.">>),
      recommendations |-> Str(r),
      weather_forecast |-> Str(w)] :
        <<r, w>> \in UNION {TextsOf(n) \X TextsOf(m) :
                              <<n, m>> \in {x \in (0..MaxSegments) \X (0..MaxSegments) :
                                              x[1] + x[2] <= MaxSegments}}}

BackendIdle ==
    /\ api_configured = TRUE
    /\ backend = [t \in {Tasks[k] : k \in 1..4} |-> "content"]
    /\ pc = [h \in Handlers |-> "idle"]
    /\ frame = [h \in Handlers |-> IdleFrame]
    /\ inflight = {}
    /\ calls = [h \in Handlers |-> <<>>]
    /\ response = [h \in Handlers |-> None]
    /\ served = {}

\* display_results is called with a record of four strings.
RenderInit ==
    /\ BackendIdle
    /\ SessionIdle
    /\ response_data \in ResponseRecords
    /\ screen = <<>>
    /\ rpc = "flights"

RenderNext ==
    \/ display_flights
    \/ display_itinerary
    \/ display_recommendations
    \/ display_weather

RenderSpec == RenderInit /\ [][RenderNext]_vars

----------------------------------------------------------------------------
(* Properties of display_results *)

\* The elements emitted between a section's heading and its closing tag.
SectionBody(heading) ==
    LET i == CHOOSE i \in 1..Len(screen) : screen[i] = Markdown(<<heading>>)
        j == CHOOSE j \in (i + 1)..Len(screen) :
                 /\ screen[j] = Html("</div>")
                 /\ \A m \in (i + 1)..(j - 1) : screen[m] # Html("</div>")
    IN  SubSeq(screen, i + 1, j - 1)

\* The tables of a section, in order.
SectionTables(heading) == SelectSeq(SectionBody(heading), LAMBDA e : e.kind = "dataframe")

RecognizedKeys == {"restaurants", "hotels", "forecast"}

\* A value a table can be built from.
Tabulates(value) == value.type = "list"

TableOf(value) == Dataframe([columns |-> value.columns, rows |-> value.n])

\* The keys of a matched group that parses as a record; none otherwise.
RecordKeys(json_str) ==
    IF json_loads(json_str).raised \/ json_loads(json_str).value.type # "dict" THEN {}
    ELSE DOMAIN json_loads(json_str).value.items

ItemOf(json_str, key) == json_loads(json_str).value.items[key]

\* The tables the recommendations section owes one matched group: restaurants,
\* then hotels, each when present and tabular, and no hotels after restaurants
\* that are not tabular.
OwedRecommendations(json_str) ==
    LET keys == RecordKeys(json_str)
    IN  (IF "restaurants" \in keys /\ Tabulates(ItemOf(json_str, "restaurants"))
            THEN <<TableOf(ItemOf(json_str, "restaurants"))>> ELSE <<>>)
        \o
        (IF /\ "hotels" \in keys
            /\ Tabulates(ItemOf(json_str, "hotels"))
            /\ ("restaurants" \in keys => Tabulates(ItemOf(json_str, "restaurants")))
            THEN <<TableOf(ItemOf(json_str, "hotels"))>> ELSE <<>>)

\* The tables the weather section owes one matched group: the forecast only.
OwedWeather(json_str) ==
    IF "forecast" \in RecordKeys(json_str) /\ Tabulates(ItemOf(json_str, "forecast"))
    THEN <<TableOf(ItemOf(json_str, "forecast"))>> ELSE <<>>

RECURSIVE OwedAll(_, _)
OwedAll(json_matches, weather) ==
    IF json_matches = <<>> THEN <<>>
    ELSE (IF weather THEN OwedWeather(Head(json_matches))
          ELSE OwedRecommendations(Head(json_matches)))
         \o OwedAll(Tail(json_matches), weather)

\* C9 as stated: for every fenced json block of either text that parses as a
\* record, a table is rendered in that text's section for each recognized key
\* the record contains.
C9_TableForEveryRecognizedKey ==
    rpc = "done" =>
        \A which \in {"recommendations", "weather_forecast"} :
            LET blocks == findall(response_data[which])
                tables == SectionTables(IF which = "recommendations"
                                           THEN "## Recommendations"
                                           ELSE "## Weather Forecast")
            IN  \A b \in 1..Len(blocks) :
                    \A key \in RecordKeys(blocks[b]) \cap RecognizedKeys :
                        /\ Tabulates(ItemOf(blocks[b], key))
                        /\ \E i \in 1..Len(tables) :
                               tables[i] = TableOf(ItemOf(blocks[b], key))

\* C9 as amended: the tables of the recommendations section are, block by block in
\* the order of the text, the record's restaurants and then its hotels, each when
\* present and tabular, with no hotels after restaurants that are not tabular;
\* the tables of the weather section are the blocks' tabular forecasts; no other
\* table is rendered.
C9_TablesPerSection ==
    rpc = "done" =>
        /\ SectionTables("## Recommendations") =
               OwedAll(findall(response_data["recommendations"]), FALSE)
        /\ SectionTables("## Weather Forecast") =
               OwedAll(findall(response_data["weather_forecast"]), TRUE)

\* C9 witness: the recommendations text holds a forecast block and a block with
\* restaurants and hotels, the weather text a forecast block; two tables are
\* rendered for the first, one for the second.
C9_Witness ==
    /\ rpc = "done"
    /\ response_data["recommendations"].parts = Block(DocForecast) \o Block(DocBoth)
    /\ response_data["weather_forecast"].parts = Block(DocForecast)
    /\ SectionTables("## Recommendations") = <<TableOf(RestaurantRows), TableOf(HotelRows)>>
    /\ SectionTables("## Weather Forecast") = <<TableOf(ForecastRows)>>

\* The place of an element on the screen (the first, if it is there twice).
PlaceOf(element) == CHOOSE i \in 1..Len(screen) : screen[i] = element

Headings == <<"## Flight Suggestions", "## Trip Itinerary", "## Recommendations",
              "## Weather Forecast">>

\* A matched group that does not parse, or one whose record holds a value no
\* table can be built from.
BlockFails(json_str) ==
    \/ json_loads(json_str).raised
    \/ \E key \in RecordKeys(json_str) \cap RecognizedKeys : ~Tabulates(ItemOf(json_str, key))

\* C11: once display_results has run, the four sections are on the screen in the
\* order flights, itinerary, recommendations, weather, each heading followed by
\* its text and each section closed; a block that fails to parse or to render
\* keeps no later block of the same text from its tables, and the weather
\* section is rendered whatever the recommendations blocks did.
C11_FailuresIgnored ==
    rpc = "done" =>
        /\ \A k \in 1..4 :
               /\ \E i \in 1..Len(screen) : screen[i] = Markdown(<<Headings[k]>>)
               /\ screen[PlaceOf(Markdown(<<Headings[k]>>)) + 1] =
                      Markdown(response_data[FieldNames[k]].parts)
               /\ k < 4 => PlaceOf(Markdown(<<Headings[k]>>)) <
                               PlaceOf(Markdown(<<Headings[k + 1]>>))
        /\ screen[Len(screen)] = Html("</div>")
        /\ LET blocks == findall(response_data["recommendations"])
               tables == SectionTables("## Recommendations")
           IN  \A i, j \in 1..Len(blocks) :
                   (i < j /\ BlockFails(blocks[i])) =>
                       \A n \in 1..Len(OwedRecommendations(blocks[j])) :
                           \E m \in 1..Len(tables) :
                               tables[m] = OwedRecommendations(blocks[j])[n]
        /\ LET blocks == findall(response_data["weather_forecast"])
               tables == SectionTables("## Weather Forecast")
           IN  \A i, j \in 1..Len(blocks) :
                   (i < j /\ BlockFails(blocks[i])) =>
                       \A n \in 1..Len(OwedWeather(blocks[j])) :
                           \E m \in 1..Len(tables) : tables[m] = OwedWeather(blocks[j])[n]

\* C11 witness: the recommendations text holds a block that does not parse, a
\* block whose restaurants are a number, and a hotels block; the hotels table is
\* rendered and the weather section follows.
C11_Witness ==
    /\ rpc = "done"
    /\ response_data["recommendations"].parts =
           Block(DocInvalid) \o Block(DocScalarRestaurants) \o Block(DocHotels)
    /\ SectionTables("## Recommendations") = <<TableOf(HotelRows)>>
    /\ SectionBody("## Weather Forecast") = <<Markdown(response_data["weather_forecast"].parts)>>

(***************************************************************************)
(* The presentation layer's session: src/frontend/app.py, lines 104-106    *)
(* and 200-232.  Streamlit runs the whole script once per interaction;     *)
(* st.session_state is the only thing that survives from one run to the    *)
(* next.  A run initialises show_results when the key is missing, handles  *)
(* the form submission if the button was pressed, and finally calls        *)
(* display_results when show_results is true and response_data is present. *)
(***************************************************************************)

StError(parts) == [kind |-> "error", body |-> parts]

StSuccess(parts) == [kind |-> "success", body |-> parts]

\* The other Streamlit calls of the script: each emits one element.
Element(kind, parts) == [kind |-> kind, body |-> parts]

\* Characters outside the character set of the module's strings.
AIRPLANE == "<airplane emoji>"

PARTY_POPPER == "<party popper emoji>"

GLOBE == "<globe emoji>"

\* Line 205: the spinner shown while its with block is being executed.
Spinner == Element("spinner", <<GLOBE, " Planning your dream trip... Please wait!">>)

\* Leaving the with block of line 205 removes the spinner from the page.
leave_spinner(elements) ==
    LET Kept(e) == e # Spinner
    IN  SelectSeq(elements, Kept)

\* The texts of lines 55-62 are sequences of their characters, so that
\* endswith can look at the last one.
DefaultApiUrl == <<"h", "t", "t", "p", ":", "/", "/", "1", "2", "7", ".", "0", ".", "0", ".", "1", ":", "8", "0", "0", "0">>

PlanTripPath == <<"p", "l", "a", "n", "_", "t", "r", "i", "p", "/">>

\* What the environment can hold for API_URL: nothing, a URL without and with
\* a trailing slash, and the empty string.
Environments ==
    {None,
     Str(<<"h", "t", "t", "p", ":", "/", "/", "b", "a", "c", "k", "e", "n", "d", ":", "8", "0", "0", "0">>),
     Str(<<"h", "t", "t", "p", ":", "/", "/", "b", "a", "c", "k", "e", "n", "d", ":", "8", "0", "0", "0", "/">>),
     Str(<<>>)}

\* os.environ.get("API_URL", "http://127.0.0.1:8000")
environ_get(value, default) == IF value = None THEN default ELSE value.parts

\* str.endswith, for a suffix of one character.
endswith(text, char) == text # <<>> /\ text[Len(text)] = char

\* Lines 55-62: a slash is added unless the URL ends with one, then "plan_trip/".
api_endpoint(value) ==
    LET url == environ_get(value, DefaultApiUrl)
    IN  (IF ~endswith(url, "/") THEN url \o <<"/">> ELSE url) \o PlanTripPath

API_ENDPOINT == api_endpoint(API_URL)

\* Lines 11-102: what every run of the script emits before it looks at the
\* submission: page configuration, style sheet, sidebar, title, introduction
\* and the form with its widgets.
PageElements ==
    <<Element("set_page_config", <<"AI Ultimate Travel Planner">>),
      Html("<style>...</style>"),
      Element("sidebar.markdown", <<"### Debug Info">>),
      Element("sidebar.write", <<"API Endpoint: ">> \o API_ENDPOINT),
      Element("title", <<AIRPLANE, " AI Ultimate Travel Planner">>),
      Markdown(<<"Welcome to your AI-powered travel companion! ...">>),
      Element("form", <<"trip_form">>),
      Element("text_input", <<"Departure City">>),
      Element("text_input", <<"Destination">>),
      Element("selectbox", <<"Budget Level">>),
      Element("date_input", <<"Start Date">>),
      Element("date_input", <<"End Date">>),
      Element("form_submit_button", <<"Plan My Trip!">>)>>

\* Lines 235-246: the footer, emitted at the end of every run.
Footer ==
    <<Markdown(<<"---">>),
      Markdown(<<"### How to use this app">>),
      Markdown(<<"1. Enter your departure city and destination ...">>),
      Markdown(<<"---">>),
      Element("caption", <<"Powered by AI Ultimate Travel Planner API & Google Gemini">>)>>

\* st.session_state.<key> = value
SetAttr(ss, key, value) ==
    [k \in DOMAIN ss \cup {key} |-> IF k = key THEN value ELSE ss[k]]

\* if 'show_results' not in st.session_state: st.session_state.show_results = False
init_session_state(ss) ==
    IF "show_results" \in DOMAIN ss THEN ss ELSE SetAttr(ss, "show_results", FALSE)

\* What the widgets of the form can hold when the script runs.
Sources == {"", "New York"}

Destinations == {"", "Paris"}

FormBudgetLevels == {<<1, "Budget-Friendly">>, <<2, "Mid-Range">>, <<3, "Luxury">>}

FormStartDate == Date(2025, 6, 1)

\* The default of the end date widget: start_date + timedelta(days=7).
FormEndDate == ShiftDate(FormStartDate, 7)

\* date.isoformat(): YYYY-MM-DD, the year always four digits.
isoformat(d) ==
    ZeroPad(NatDigits(d.year), 4) \o <<"-">> \o ZeroPad(NatDigits(d.month), 2)
        \o <<"-">> \o ZeroPad(NatDigits(d.day), 2)

\* Lines 206-212.
payload(source, destination, start_date, end_date, budget_level) ==
    [source       |-> source,
     destination  |-> destination,
     start_date   |-> Str(isoformat(start_date)),
     end_date     |-> Str(isoformat(end_date)),
     budget_level |-> budget_level[1]]

\* Two TripPlanResponse bodies, as response.json() returns them.
PlanA ==
    [flight_suggestions |-> Str(<<PROSE, NL>>),
     itinerary          |-> Str(<<PROSE, NL>>),
     recommendations    |-> Str(Block(DocBoth)),
     weather_forecast   |-> Str(Block(DocForecast))]

PlanB ==
    [flight_suggestions |-> Str(<<"No direct flights.", NL>>),
     itinerary          |-> Str(<<PROSE, NL>>),
     recommendations    |-> Str(Block(DocInvalid)),
     weather_forecast   |-> Str(<<PROSE, NL>>)]

Plans == {PlanA, PlanB}

\* The outcomes of requests.post: a response of the service (200 with a
\* plan, 422 from request validation, 500 and 503 from plan_trip), or a
\* RequestException (connection refused, timeout).
HttpResponse(status_code, body) ==
    [kind |-> "response", status_code |-> status_code, body |-> body]

ErrorDetail == "{\"detail\": \"...\"}"

Answers ==
    {HttpResponse(200, p) : p \in Plans}
        \cup {HttpResponse(c, Str(<<ErrorDetail>>)) : c \in {422, 500, 503}}

\* str(e) of the exception is its message.
RequestException == [kind |-> "RequestException", message |-> "Connection refused"]

NoAnswer == [kind |-> "none"]

\* The handler of lines 201-228 with the else branch of the status test also
\* hiding the stored plan.
form_submission_hides_on_error(ss, submit_button, source, destination, answer) ==
    IF ~submit_button THEN [state |-> ss, messages |-> <<>>, sent |-> FALSE]
    ELSE IF source = "" \/ destination = ""
    THEN [state |-> ss,
          messages |-> <<StError(<<"Please provide both departure city and destination!">>)>>,
          sent |-> FALSE]
    ELSE IF answer.kind = "RequestException"
    THEN [state |-> ss,
          messages |-> <<StError(<<"Error connecting to the API. Make sure your FastAPI server is running. Error: ",
                                   answer.message>>),
                         StError(<<"API URL being used: ">> \o API_ENDPOINT)>>,
          sent |-> TRUE]
    ELSE IF answer.status_code = 200
    THEN [state |-> SetAttr(SetAttr(ss, "response_data", answer.body),
                            "show_results", TRUE),
          messages |-> <<StSuccess(<<"Your travel plan is ready! ", PARTY_POPPER>>)>>,
          sent |-> TRUE]
    ELSE [state |-> SetAttr(ss, "show_results", FALSE),
          messages |-> <<StError(<<"Error: ">> \o IntToStr(answer.status_code)
                                    \o <<" - ">> \o answer.body.parts)>>,
          sent |-> TRUE]

\* Lines 201-228: the state the submission leaves, the messages it shows,
\* and whether a request was sent.  "not source" is true of the empty string.
form_submission(ss, submit_button, source, destination, answer) ==
    IF ~submit_button THEN [state |-> ss, messages |-> <<>>, sent |-> FALSE]
    ELSE IF source = "" \/ destination = ""
    THEN [state |-> ss,
          messages |-> <<StError(<<"Please provide both departure city and destination!">>)>>,
          sent |-> FALSE]
    ELSE IF answer.kind = "RequestException"
    THEN [state |-> ss,
          messages |-> <<StError(<<"Error connecting to the API. Make sure your FastAPI server is running. Error: ",
                                   answer.message>>),
                         StError(<<"API URL being used: ">> \o API_ENDPOINT)>>,
          sent |-> TRUE]
    ELSE IF answer.status_code = 200
    THEN [state |-> SetAttr(SetAttr(ss, "response_data", answer.body),
                            "show_results", TRUE),
          messages |-> <<StSuccess(<<"Your travel plan is ready! ", PARTY_POPPER>>)>>,
          sent |-> TRUE]
    ELSE [state |-> ss,
          messages |-> <<StError(<<"Error: ">> \o IntToStr(answer.status_code)
                                    \o <<" - ">> \o answer.body.parts)>>,
          sent |-> TRUE]

\* Line 231: the condition under which display_results is called.
display_due(ss) == ss["show_results"] /\ "response_data" \in DOMAIN ss

\* Lines 231-246, from the state ss the submission handling left and the
\* elements emitted so far: display_results is called with the stored plan
\* (the display_* actions render it, script_footer follows), or the footer
\* is emitted at once and the run ends.
finish_run(ss, elements) ==
    /\ session_state' = ss
    /\ IF display_due(ss)
       THEN /\ response_data' = ss["response_data"]
            /\ screen' = elements
            /\ rpc' = "flights"
       ELSE /\ response_data' = None
            /\ screen' = elements \o Footer
            /\ rpc' = "off"
    /\ UNCHANGED <<API_URL, backendVars>>

\* A whole run of the script that sends no request.
script_run(kind, submit_button, source, destination) ==
    LET r == form_submission(init_session_state(session_state),
                             submit_button, source, destination, NoAnswer)
    IN  /\ last_run' = [kind |-> kind, before |-> session_state,
                        source |-> source, destination |-> destination,
                        request |-> None, posted_to |-> None,
                        sent |-> r.sent, answer |-> NoAnswer]
        /\ finish_run(r.state, PageElements \o r.messages)

\* The previous run of the script has ended.
RunEnded == rpc \in {"off", "ended"}

\* A run caused by anything other than the submit button.
script_rerun ==
    \E source \in Sources, destination \in Destinations :
        /\ RunEnded
        /\ script_run("rerun", FALSE, source, destination)

\* Submission with an empty departure city or destination.
submit_rejected ==
    \E source \in Sources, destination \in Destinations :
        /\ RunEnded
        /\ source = "" \/ destination = ""
        /\ script_run("rejected", TRUE, source, destination)

\* Submission with both cities given, up to the call of requests.post, in
\* which the run blocks (lines 11-106 and 201-217) with the spinner shown.
submit_posted ==
    \E source \in Sources \ {""}, destination \in Destinations \ {""},
       budget_level \in FormBudgetLevels :
        /\ RunEnded
        /\ session_state' = init_session_state(session_state)
        /\ last_run' = [kind |-> "posted", before |-> session_state,
                        source |-> source, destination |-> destination,
                        request |-> payload(source, destination, FormStartDate,
                                            FormEndDate, budget_level),
                        posted_to |-> Str(API_ENDPOINT),
                        sent |-> TRUE, answer |-> NoAnswer]
        /\ screen' = PageElements \o <<Spinner>>
        /\ response_data' = None
        /\ rpc' = "posting"
        /\ UNCHANGED <<API_URL, backendVars>>

\* requests.post returns or raises: the rest of the run (lines 219-232).  The
\* messages are emitted inside the with block, which is then left.
request_returns(kind, answer) ==
    LET r == form_submission(session_state, TRUE, last_run.source,
                             last_run.destination, answer)
    IN  /\ last_run' = [last_run EXCEPT !.kind = kind, !.answer = answer]
        /\ finish_run(r.state, leave_spinner(screen \o r.messages))

\* The request is answered by the service, with any status.
submit_answered ==
    \E answer \in Answers :
        /\ rpc = "posting"
        /\ request_returns("answered", answer)

\* The request raises RequestException.
submit_unreachable ==
    /\ rpc = "posting"
    /\ request_returns("unreachable", RequestException)

\* Lines 235-246 after display_results has returned.
script_footer ==
    /\ rpc = "done"
    /\ last_run.kind # "none"
    /\ screen' = screen \o Footer
    /\ rpc' = "ended"
    /\ UNCHANGED <<response_data, sessionVars, backendVars>>

SessionInit ==
    /\ BackendIdle
    /\ RenderIdle
    /\ session_state = NewSession
    /\ last_run = NoRun
    /\ API_URL \in Environments

SessionNext ==
    \/ script_rerun
    \/ submit_rejected
    \/ submit_posted
    \/ submit_answered
    \/ submit_unreachable
    \/ display_flights
    \/ display_itinerary
    \/ display_recommendations
    \/ display_weather
    \/ script_footer

SessionSpec == SessionInit /\ [][SessionNext]_vars

(***************************************************************************)
(* Properties of the session, checked under SessionSpec.                   *)
(***************************************************************************)

\* The last run was a submission that received status 200.
RunOk == last_run.kind = "answered" /\ last_run.answer.status_code = 200

\* show_results is set and true in the session state ss.
Shows(ss) == "show_results" \in DOMAIN ss /\ ss["show_results"]

\* C12: show_results starts false and becomes true only in a run whose
\* submission received status 200, and then response_data is that response;
\* a run that is no such submission (a rejected one, which sends nothing, one
\* still waiting for its answer, one answered with another status, one that
\* cannot connect, or a plain rerun) leaves show_results and response_data as
\* they were, so show_results never returns to false, and the stored plan is
\* what display_results is given at the end of every run in which
\* show_results is true.
C12_SessionFrame ==
    /\ last_run.kind = "none" => session_state = NewSession
    /\ last_run.kind # "none" =>
         /\ "show_results" \in DOMAIN session_state
         /\ RunOk =>
              /\ session_state["show_results"] = TRUE
              /\ session_state["response_data"] = last_run.answer.body
              /\ last_run.sent
         /\ ~RunOk =>
              /\ Shows(session_state) <=> Shows(last_run.before)
              /\ "response_data" \in DOMAIN session_state
                    <=> "response_data" \in DOMAIN last_run.before
              /\ "response_data" \in DOMAIN session_state =>
                    session_state["response_data"] = last_run.before["response_data"]
         /\ last_run.before = NewSession /\ ~RunOk => ~Shows(session_state)
         /\ Shows(last_run.before) => Shows(session_state)
         /\ last_run.kind = "rerun" => ~last_run.sent
         /\ last_run.source = "" \/ last_run.destination = ""
              => ~last_run.sent /\ ~RunOk
         /\ last_run.sent <=> last_run.request # None
         /\ last_run.sent <=> last_run.posted_to # None
         /\ Shows(session_state) /\ rpc # "posting" =>
              /\ "response_data" \in DOMAIN session_state
              /\ rpc # "off"
              /\ response_data = session_state["response_data"]
         /\ ~Shows(session_state) => rpc \in {"off", "posting"}
         /\ rpc = "posting" <=> \E i \in 1 .. Len(screen) : screen[i] = Spinner

\* A plan is stored, the next submission is answered with status 503, and the
\* run has ended with the stored plan displayed again between the error
\* message and the footer.
C12_Witness ==
    /\ last_run.kind = "answered"
    /\ last_run.answer.status_code = 503
    /\ Shows(last_run.before)
    /\ last_run.before["response_data"] = PlanA
    /\ session_state = last_run.before
    /\ rpc = "ended"
    /\ response_data = PlanA
    /\ \E i, j \in 1 .. Len(screen) :
           /\ i < j
           /\ screen[i].kind = "error"
           /\ screen[j] = Markdown(PlanA.weather_forecast.parts)
    /\ screen[Len(screen)].kind = "caption"

====
